---- MODULE Spec2Model ----
(***************************************************************************)
(* Read API over companies, vendors, statements of work and invoices.      *)
(*                                                                         *)
(*   data/crud.py            the session-based query builders              *)
(*                           get_<entity>(db, id) and                      *)
(*                           get_<entities>(db, skip, limit, sortby,       *)
(*                           search)                                       *)
(*   app/routers/invoices.py the pool-based handlers list_invoices and     *)
(*                           read_invoice                                  *)
(*                                                                         *)
(* Text is a sequence of one-character strings.  A sortby string is a      *)
(* sequence of tokens: the separator ":" and words that hold no ":".       *)
(* Python's None and SQL's NULL are the one-token sequences None and Null, *)
(* whose token belongs to no alphabet, so that they stay comparable with   *)
(* text.                                                                   *)
(***************************************************************************)
EXTENDS Integers, Sequences, FiniteSets, TLC

\* ------------------------------------------------------------------ bounds
MaxId == 2      \* the ids that may exist when the handlers run
MaxRows == 3    \* the ids that may exist when the query builders are called
MaxSkip == 2
MaxLimit == 2
PoolSize == 1

Requests == {"r1", "r2"}
Connections == 1 .. PoolSize

None == <<"None">>
Null == <<"NULL">>

\* ------------------------------------------------------------ the tables
Entities == {"company", "vendor", "sow", "invoice"}

\* The attributes of each mapped class.
Columns(e) ==
    CASE e = "company" -> {"id", "company_name", "address", "contact_person",
                           "contact_email", "extra_metadata"}
      [] e = "vendor"  -> {"id", "name", "address", "contact_name", "contact_email",
                           "contact_phone", "contact_type"}
      [] e = "sow"     -> {"id", "sow_title", "start_date", "end_date", "budget",
                           "sow_document", "details"}
      [] e = "invoice" -> {"id", "invoice_number", "payment_status"}

\* The columns the search of each builder goes through, first the required one.
SearchFields(e) ==
    CASE e = "company" -> <<"company_name", "address", "contact_person", "contact_email">>
      [] e = "vendor"  -> <<"name", "address", "contact_name", "contact_email",
                            "contact_phone", "contact_type">>
      [] e = "sow"     -> <<"sow_title", "sow_document">>
      [] e = "invoice" -> <<"invoice_number", "payment_status">>

\* The stored rows.  The row of id i is fixed; which ids exist is the state.
\* The required text column differs in case and length ("Ab", "Abc", "c"),
\* the second searchable column holds a NULL and a tie, the others are NULL.
TitleOf(i) ==
    CASE i % 3 = 1 -> <<"A", "b">>
      [] i % 3 = 2 -> <<"A", "b", "c">>
      [] OTHER     -> <<"c">>

SecondOf(i) ==
    CASE i % 3 = 1 -> <<"b">>
      [] i % 3 = 2 -> Null
      [] OTHER     -> <<"b">>

Row(e, i) ==
    [c \in Columns(e) |->
        IF c = "id" THEN i
        ELSE IF c = SearchFields(e)[1] THEN TitleOf(i)
        ELSE IF c = SearchFields(e)[2] THEN SecondOf(i)
        ELSE Null]

\* ------------------------------------------------------------------- text
Min(a, b) == IF a < b THEN a ELSE b

\* Python's truth value of an optional string: None and "" are false.
Truthy(s) == s # None /\ s # <<>>

Lower(c) ==
    CASE c = "A" -> "a"
      [] c = "B" -> "b"
      [] c = "C" -> "c"
      [] OTHER   -> c

LowerStr(s) == [k \in 1 .. Len(s) |-> Lower(s[k])]

\* The collation: the place of each character in the order of text.
Rank(c) ==
    CASE c = "%" -> 1
      [] c = "_" -> 2
      [] c = "A" -> 3
      [] c = "B" -> 4
      [] c = "C" -> 5
      [] c = "a" -> 6
      [] c = "b" -> 7
      [] c = "c" -> 8
      [] OTHER   -> 9

RECURSIVE LexLess(_, _)
LexLess(a, b) ==
    IF b = <<>> THEN FALSE
    ELSE IF a = <<>> THEN TRUE
    ELSE IF Rank(Head(a)) # Rank(Head(b)) THEN Rank(Head(a)) < Rank(Head(b))
    ELSE LexLess(Tail(a), Tail(b))

\* SQL's LIKE: % matches any run of characters, _ any one character.
RECURSIVE Like(_, _)
Like(s, p) ==
    IF p = <<>> THEN s = <<>>
    ELSE IF Head(p) = "%" THEN Like(s, Tail(p)) \/ (s # <<>> /\ Like(Tail(s), p))
    ELSE /\ s # <<>>
         /\ (Head(p) = "_" \/ Head(p) = Head(s))
         /\ Like(Tail(s), Tail(p))

\* column.ilike(pattern): LIKE without regard to case; never true of a NULL.
ILike(v, p) == v # Null /\ Like(LowerStr(v), LowerStr(p))

\* str.split(':'): the parts between the separators, one more than separators.
RECURSIVE Split(_)
Split(s) ==
    IF \A k \in 1 .. Len(s) : s[k] # ":" THEN <<s>>
    ELSE LET k == CHOOSE i \in 1 .. Len(s) :
                      s[i] = ":" /\ \A j \in 1 .. i - 1 : s[j] # ":"
         IN  <<SubSeq(s, 1, k - 1)>> \o Split(SubSeq(s, k + 1, Len(s)))

\* f'{n}': the decimal digits of an integer.
Digit(d) == <<"0", "1", "2", "3", "4", "5", "6", "7", "8", "9">>[d + 1]

RECURSIVE Str(_)
Str(n) ==
    IF n < 0 THEN <<"-">> \o Str(0 - n)
    ELSE IF n < 10 THEN <<Digit(n)>>
    ELSE Str(n \div 10) \o <<Digit(n % 10)>>

\* ---------------------------------------------------------- the database
\* The orders in which the engine may hand out the rows of a table when no
\* ORDER BY decides: any of them, anew at each execution.
Scans(S) == {p \in [1 .. Cardinality(S) -> S] : \A i, j \in DOMAIN p : p[i] = p[j] => i = j}

\* The order of two values of a column; NULL is larger than every value.
ValLess(c, a, b) ==
    IF c = "id" THEN a < b
    ELSE IF a = Null THEN FALSE
    ELSE IF b = Null THEN TRUE
    ELSE LexLess(a, b)

\* ORDER BY: rows[k] goes by keys[k]; rows with equal keys keep the order in
\* which the scan produced them.  c names the column type of the keys.
RECURSIVE OrderBy(_, _, _, _)
OrderBy(rows, keys, c, desc) ==
    IF rows = <<>> THEN <<>>
    ELSE LET n      == Len(rows)
             front  == OrderBy(SubSeq(rows, 1, n - 1), SubSeq(keys, 1, n - 1), c, desc)
             fkeys  == OrderBy(SubSeq(keys, 1, n - 1), SubSeq(keys, 1, n - 1), c, desc)
             Before(k) == IF desc THEN ValLess(c, fkeys[k], keys[n])
                                  ELSE ValLess(c, keys[n], fkeys[k])
             pos    == Cardinality({k \in 1 .. n - 1 : ~Before(k)})
         IN  SubSeq(front, 1, pos) \o <<rows[n]>> \o SubSeq(front, pos + 1, n - 1)

RECURSIVE Where(_, _, _)
\* WHERE f1 ILIKE p OR f2 ILIKE p OR ...
Where(rows, fields, p) ==
    IF rows = <<>> THEN <<>>
    ELSE LET r == Head(rows)
         IN  (IF \E k \in DOMAIN fields : ILike(r[fields[k]], p) THEN <<r>> ELSE <<>>)
             \o Where(Tail(rows), fields, p)

\* WHERE id = x left out of the query.
WhereId_NoFilter(rows, x) == rows

RECURSIVE WhereId(_, _)
\* WHERE id = x
WhereId(rows, x) ==
    IF rows = <<>> THEN <<>>
    ELSE (IF Head(rows).id = x THEN <<Head(rows)>> ELSE <<>>) \o WhereId(Tail(rows), x)

\* FROM <table>, as the scan hands the rows out.
From(e, scan) == [k \in 1 .. Len(scan) |-> Row(e, scan[k])]

\* OFFSET skip LIMIT limit.
OffsetLimit(rows, skip, limit) == SubSeq(rows, skip + 1, Min(Len(rows), skip + limit))

\* ------------------------------------------------------- data/crud.py
\* getattr(Model, sort_column) finds the attribute named by the text name.
HasAttr(e, name) == Len(name) = 1 /\ name[1] \in Columns(e)

\* A sortby without separator taken as the name of a column to sort by.
ParseSortby_BareColumn(e, sortby) ==
    IF ~Truthy(sortby)
    THEN [status |-> "none", column |-> "", desc |-> FALSE]
    ELSE LET parts == Split(sortby)
         IN  IF Len(parts) = 1 /\ HasAttr(e, parts[1])
             THEN [status |-> "ok", column |-> parts[1][1], desc |-> FALSE]
             ELSE IF Len(parts) # 2
             THEN [status |-> "ignored", column |-> "", desc |-> FALSE]
             ELSE IF ~HasAttr(e, parts[1])
             THEN [status |-> "AttributeError", column |-> "", desc |-> FALSE]
             ELSE [status |-> "ok", column |-> parts[1][1],
                   desc |-> (parts[2] = <<"desc">>)]

\* The block catching every exception, not ValueError alone.
ParseSortby_CatchAll(e, sortby) ==
    IF ~Truthy(sortby)
    THEN [status |-> "none", column |-> "", desc |-> FALSE]
    ELSE LET parts == Split(sortby)
         IN  IF Len(parts) # 2 \/ ~HasAttr(e, parts[1])
             THEN [status |-> "ignored", column |-> "", desc |-> FALSE]
             ELSE [status |-> "ok", column |-> parts[1][1],
                   desc |-> (parts[2] = <<"desc">>)]

\* The `if sortby:` block.  "none": no sortby; "ignored": the unpacking of
\* the split raised ValueError, which the block catches; "AttributeError":
\* getattr raised, which it does not catch; "ok": an order_by was added.
ParseSortby(e, sortby) ==
    IF ~Truthy(sortby)
    THEN [status |-> "none", column |-> "", desc |-> FALSE]
    ELSE LET parts == Split(sortby)
         IN  IF Len(parts) # 2
             THEN [status |-> "ignored", column |-> "", desc |-> FALSE]
             ELSE IF ~HasAttr(e, parts[1])
             THEN [status |-> "AttributeError", column |-> "", desc |-> FALSE]
             ELSE [status |-> "ok", column |-> parts[1][1],
                   desc |-> (parts[2] = <<"desc">>)]

\* The `if search:` block: the rows one of whose fields is ILIKE %search%.
SearchFilter(rows, fields, search) ==
    IF Truthy(search) THEN Where(rows, fields, <<"%">> \o search \o <<"%">>) ELSE rows

\* query.offset(skip).limit(limit).all(); the engine rejects a negative OFFSET.
All(rows, skip, limit) ==
    IF skip < 0 THEN [status |-> "DBError", rows |-> <<>>]
    ELSE [status |-> "ok", rows |-> OffsetLimit(rows, skip, limit)]

\* get_companies, get_vendors, get_sows and get_invoices are one function up
\* to the mapped class and its searched fields.
ListQuery(e, fields, skip, limit, sortby, search, scan) ==
    LET filtered == SearchFilter(From(e, scan), fields, search)
        sort     == ParseSortby(e, sortby)
    IN  IF sort.status = "AttributeError"
        THEN [status |-> "AttributeError", rows |-> <<>>]
        ELSE IF sort.status = "ok"
        THEN All(OrderBy(filtered,
                         [k \in 1 .. Len(filtered) |-> filtered[k][sort.column]],
                         sort.column, sort.desc),
                 skip, limit)
        ELSE All(filtered, skip, limit)

get_companies(skip, limit, sortby, search, scan) ==
    ListQuery("company",
              <<"company_name", "address", "contact_person", "contact_email">>,
              skip, limit, sortby, search, scan)

get_vendors(skip, limit, sortby, search, scan) ==
    ListQuery("vendor",
              <<"name", "address", "contact_name", "contact_email", "contact_phone",
                "contact_type">>,
              skip, limit, sortby, search, scan)

get_sows(skip, limit, sortby, search, scan) ==
    ListQuery("sow", <<"sow_title", "sow_document">>, skip, limit, sortby, search, scan)

get_invoices(skip, limit, sortby, search, scan) ==
    ListQuery("invoice", <<"invoice_number", "payment_status">>,
              skip, limit, sortby, search, scan)

\* db.query(Model).filter(Model.id == x).first(): the first row, or none.
First(rows) == SubSeq(rows, 1, Min(1, Len(rows)))

get_company(company_id, scan) == First(WhereId(From("company", scan), company_id))
get_vendor(vendor_id, scan) == First(WhereId(From("vendor", scan), vendor_id))
get_sow(sow_id, scan) == First(WhereId(From("sow", scan), sow_id))
get_invoice(invoice_id, scan) == First(WhereId(From("invoice", scan), invoice_id))

\* ------------------------------------------- app/routers/invoices.py
\* Invoice(**dict(row)): the response model built from the columns of a row.
Invoice(row) == [c \in DOMAIN row |-> row[c]]

NoResp ==
    [kind |-> "none", status |-> 0, data |-> <<>>, total |-> 0, skip |-> 0,
     limit |-> 0, detail |-> <<>>]

\* ListResponse(data=..., total=..., skip=..., limit=...), sent with status 200.
ListResponse(data, total, skip, limit) ==
    [kind |-> "list", status |-> 200, data |-> data, total |-> total, skip |-> skip,
     limit |-> limit, detail |-> <<>>]

\* A single record, sent with status 200.
ItemResponse(item) ==
    [kind |-> "item", status |-> 200, data |-> <<item>>, total |-> 0, skip |-> 0,
     limit |-> 0, detail |-> <<>>]

\* HTTPException(status_code=..., detail=...).
HTTPException(status_code, detail) ==
    [kind |-> "error", status |-> status_code, data |-> <<>>, total |-> 0, skip |-> 0,
     limit |-> 0, detail |-> detail]

\* An exception no handler catches: the framework answers 500.
ServerError == HTTPException(500, <<"Internal Server Error">>)

\* conn.fetch('SELECT * FROM invoices ORDER BY $1 LIMIT $2 OFFSET $3;',
\*            orderby, limit, skip): $1 is a bound text value, the same for
\* every row, so the rows go by one constant key.
Fetch(orderby, limit, skip, scan) ==
    LET rows == From("invoice", scan)
    IN  All(OrderBy(rows, [k \in 1 .. Len(rows) |-> orderby], "$1", FALSE), skip, limit)

\* total taken from the size of the table, not of the page.
list_invoices_body_CountAll(skip, limit, sortby, search, scan) ==
    LET orderby == IF Truthy(sortby) THEN sortby ELSE <<"id">>
        got     == Fetch(orderby, limit, skip, scan)
        invoices == [k \in 1 .. Len(got.rows) |-> Invoice(got.rows[k])]
    IN  IF got.status # "ok" THEN ServerError
        ELSE ListResponse(invoices, Len(scan), skip, limit)

\* The body of list_invoices under the connection.
list_invoices_body(skip, limit, sortby, search, scan) ==
    LET orderby == IF Truthy(sortby) THEN sortby ELSE <<"id">>
        got     == Fetch(orderby, limit, skip, scan)
        invoices == [k \in 1 .. Len(got.rows) |-> Invoice(got.rows[k])]
    IN  IF got.status # "ok" THEN ServerError
        ELSE ListResponse(invoices, Len(invoices), skip, limit)

\* conn.fetchrow('SELECT * FROM invoices WHERE id = $1;', invoice_id).
FetchRow(invoice_id, scan) == First(WhereId(From("invoice", scan), invoice_id))

\* f'An invoice with an id of {invoice_id} was not found.'
NotFoundDetail(invoice_id) ==
    <<"An invoice with an id of ">> \o Str(invoice_id) \o <<" was not found.">>

\* The row used without the test for None.
read_invoice_body_NoNoneTest(invoice_id, scan) ==
    LET row == FetchRow(invoice_id, scan)
    IN  IF row = <<>> THEN ServerError
        ELSE ItemResponse(Invoice(row[1]))

\* The body of read_invoice under the connection.
read_invoice_body(invoice_id, scan) ==
    LET row == FetchRow(invoice_id, scan)
    IN  IF row = <<>> THEN HTTPException(404, NotFoundDetail(invoice_id))
        ELSE ItemResponse(Invoice(row[1]))

\* The connection given back by a release at the end of the block, which an
\* exception skips.
ConnAfterBlock_NoFinally(c, raised) == IF raised THEN c ELSE 0

\* `async with pool as conn`: what the request holds once the block is left,
\* whether it ended or raised.
ConnAfterBlock(c, raised) == 0

\* ... and what the pool holds then.
PoolAfterBlock(pool, c, raised) == pool \cup {c}

VARIABLES
    present,   \* the ids that exist (in every table)
    pc,        \* where each request is
    req,       \* the operation and the arguments of each request
    conn,      \* the connection each request holds, 0 for none
    free,      \* the connections left in the pool
    resp,      \* what each request ended with
    call       \* the last call of a query builder and what it returned

vars == <<present, pc, req, conn, free, resp, call>>

\* ----------------------------------------------------------- the inputs
Ids == (0 .. MaxId + 1) \cup {MaxId + 10}
Skips == -1 .. MaxSkip
Limits == 1 .. MaxLimit

\* What a caller may pass as sortby to the builder of entity e.
SortbyInputs(e) ==
    {None, <<>>, <<"id">>,
     <<"id", ":", "desc">>, <<"id", ":", "asc">>,
     <<SearchFields(e)[1], ":", "desc">>,
     <<SearchFields(e)[2], ":", "desc">>, <<SearchFields(e)[2], ":", "DESC">>,
     <<"bogus", ":", "desc">>, <<":", "desc">>,
     <<"id", ":", "desc", ":", "x">>}

SearchInputs ==
    {None, <<>>, <<"a", "b">>, <<"B">>, <<"b", "c">>, <<"z">>, <<"_">>, <<"%">>}

\* What the requests to /invoices/ pass.
RouterSortby == {None, <<"id", ":", "desc">>}
RouterSearch == {None, <<"b", "c">>}

NoReq ==
    [op |-> "none", entity |-> "", id |-> 0, skip |-> 0, limit |-> 0,
     sortby |-> None, search |-> None]

NoCall ==
    [fn |-> "none", entity |-> "", skip |-> 0, limit |-> 0, sortby |-> None,
     search |-> None, scan |-> <<>>, status |-> "", rows |-> <<>>]

Init ==
    /\ present \in SUBSET (1 .. MaxId)
    /\ pc = [r \in Requests |-> "idle"]
    /\ req = [r \in Requests |-> NoReq]
    /\ conn = [r \in Requests |-> 0]
    /\ free = Connections
    /\ resp = [r \in Requests |-> NoResp]
    /\ call = NoCall

\* ------------------------------------------------- the pool-based handlers
\* GET /invoices/ arrives.
list_invoices_start(r) ==
    /\ pc[r] = "idle"
    /\ \E skip \in Skips, limit \in Limits, sortby \in RouterSortby, search \in RouterSearch :
           req' = [req EXCEPT ![r] = [op |-> "list_invoices", entity |-> "invoice",
                                      id |-> 0, skip |-> skip, limit |-> limit,
                                      sortby |-> sortby, search |-> search]]
    /\ pc' = [pc EXCEPT ![r] = "enter"]
    /\ UNCHANGED <<present, conn, free, resp, call>>

\* GET /invoices/{invoice_id} arrives.
read_invoice_start(r) ==
    /\ pc[r] = "idle"
    /\ \E id \in Ids :
           req' = [req EXCEPT ![r] = [NoReq EXCEPT !.op = "read_invoice",
                                                  !.entity = "invoice", !.id = id]]
    /\ pc' = [pc EXCEPT ![r] = "enter"]
    /\ UNCHANGED <<present, conn, free, resp, call>>

\* `async with pool as conn`, entering: the request waits for a connection.
Enter(r) ==
    /\ pc[r] = "enter"
    /\ \E c \in free :
           /\ conn' = [conn EXCEPT ![r] = c]
           /\ free' = free \ {c}
    /\ pc' = [pc EXCEPT ![r] = "body"]
    /\ UNCHANGED <<present, req, resp, call>>

\* list_invoices, from `await conn.fetch` to the end of the block.
list_invoices_fetch(r) ==
    /\ pc[r] = "body"
    /\ req[r].op = "list_invoices"
    /\ \E scan \in Scans(present) :
           resp' = [resp EXCEPT ![r] =
                       list_invoices_body(req[r].skip, req[r].limit, req[r].sortby,
                                          req[r].search, scan)]
    /\ pc' = [pc EXCEPT ![r] = "exit"]
    /\ UNCHANGED <<present, req, conn, free, call>>

\* read_invoice, from `await conn.fetchrow` to the end of the block.
read_invoice_fetch(r) ==
    /\ pc[r] = "body"
    /\ req[r].op = "read_invoice"
    /\ \E scan \in Scans(present) :
           resp' = [resp EXCEPT ![r] = read_invoice_body(req[r].id, scan)]
    /\ pc' = [pc EXCEPT ![r] = "exit"]
    /\ UNCHANGED <<present, req, conn, free, call>>

\* `async with pool as conn`, leaving: by the return or by the exception.
Exit(r) ==
    /\ pc[r] = "exit"
    /\ conn' = [conn EXCEPT ![r] = ConnAfterBlock(conn[r], resp[r].kind = "error")]
    /\ free' = PoolAfterBlock(free, conn[r], resp[r].kind = "error")
    /\ pc' = [pc EXCEPT ![r] = "done"]
    /\ UNCHANGED <<present, req, resp, call>>

\* The answer of a finished request is sent; the slot takes the next request.
Reply(r) ==
    /\ pc[r] = "done"
    /\ pc' = [pc EXCEPT ![r] = "idle"]
    /\ req' = [req EXCEPT ![r] = NoReq]
    /\ resp' = [resp EXCEPT ![r] = NoResp]
    /\ UNCHANGED <<present, conn, free, call>>

\* ------------------------------------------------ the session-based reads
\* A caller looks one record up: get_company, get_vendor, get_sow, get_invoice.
GetOne(e, id, scan) ==
    CASE e = "company" -> get_company(id, scan)
      [] e = "vendor"  -> get_vendor(id, scan)
      [] e = "sow"     -> get_sow(id, scan)
      [] e = "invoice" -> get_invoice(id, scan)

get_one(r) ==
    /\ pc[r] = "idle"
    /\ \E e \in Entities, id \in Ids, scan \in Scans(present) :
           /\ req' = [req EXCEPT ![r] = [NoReq EXCEPT !.op = "get_one", !.entity = e,
                                                      !.id = id]]
           /\ resp' = [resp EXCEPT ![r] =
                          [NoResp EXCEPT !.kind = "returned", !.data = GetOne(e, id, scan)]]
    /\ pc' = [pc EXCEPT ![r] = "done"]
    /\ UNCHANGED <<present, conn, free, call>>

\* A caller reads a page: get_companies, get_vendors, get_sows, get_invoices.
GetMany(e, skip, limit, sortby, search, scan) ==
    CASE e = "company" -> get_companies(skip, limit, sortby, search, scan)
      [] e = "vendor"  -> get_vendors(skip, limit, sortby, search, scan)
      [] e = "sow"     -> get_sows(skip, limit, sortby, search, scan)
      [] e = "invoice" -> get_invoices(skip, limit, sortby, search, scan)

get_many ==
    /\ call.fn = "none"
    /\ \E e \in Entities, skip \in Skips, limit \in Limits, search \in SearchInputs,
          scan \in Scans(present) :
         \E sortby \in SortbyInputs(e) :
           LET got == GetMany(e, skip, limit, sortby, search, scan)
           IN  call' = [fn |-> "get_many", entity |-> e, skip |-> skip, limit |-> limit,
                        sortby |-> sortby, search |-> search, scan |-> scan,
                        status |-> got.status, rows |-> got.rows]
    /\ UNCHANGED <<present, pc, req, conn, free, resp>>

\* The caller has its page.
get_many_return ==
    /\ call.fn # "none"
    /\ call' = NoCall
    /\ UNCHANGED <<present, pc, req, conn, free, resp>>

Next ==
    \E r \in Requests :
        \/ list_invoices_start(r)
        \/ read_invoice_start(r)
        \/ Enter(r)
        \/ list_invoices_fetch(r)
        \/ read_invoice_fetch(r)
        \/ Exit(r)
        \/ Reply(r)
        \/ get_one(r)

Spec == Init /\ [][Next]_vars

\* `await conn.fetch` / `await conn.fetchrow` raises: the storage is down, the
\* connection is lost, the statement times out.
fetch_raises(r) ==
    /\ pc[r] = "body"
    /\ resp' = [resp EXCEPT ![r] = ServerError]
    /\ pc' = [pc EXCEPT ![r] = "exit"]
    /\ UNCHANGED <<present, req, conn, free, call>>

\* The handlers over a storage that may fail.
NextFault == Next \/ \E r \in Requests : fetch_raises(r)

SpecFault == Init /\ [][NextFault]_vars

NextCrud == get_many \/ get_many_return

InitCrud ==
    /\ present \in SUBSET (1 .. MaxRows)
    /\ pc = [r \in Requests |-> "idle"]
    /\ req = [r \in Requests |-> NoReq]
    /\ conn = [r \in Requests |-> 0]
    /\ free = Connections
    /\ resp = [r \in Requests |-> NoResp]
    /\ call = NoCall

SpecCrud == InitCrud /\ [][NextCrud]_vars

\* ------------------------------------------------------------- the claims
\* t occurs in s.
Contains(s, t) ==
    \E i \in 0 .. Len(s) - Len(t) : SubSeq(s, i + 1, i + Len(t)) = t

\* The text value v holds the term t as a literal substring, whatever the case.
ContainsCI(v, t) == v # Null /\ Contains(LowerStr(v), LowerStr(t))

\* The ids of a page, in its order.
IdsOf(rows) == {rows[k].id : k \in 1 .. Len(rows)}

Finished(r, op) == pc[r] = "done" /\ req[r].op = op

\* C1: read_invoice of an id that does not exist ends with a 404 whose detail
\* holds the digits of the id; never a 500, never a record.
C1_AbsentIdIs404 ==
    \A r \in Requests :
        (Finished(r, "read_invoice") /\ req[r].id \notin present) =>
            /\ resp[r].kind = "error"
            /\ resp[r].status = 404
            /\ resp[r].data = <<>>
            /\ Contains(resp[r].detail, Str(req[r].id))

C1_Witness ==
    \E r \in Requests :
        /\ Finished(r, "read_invoice")
        /\ req[r].id = MaxId + 10
        /\ present # {}
        /\ resp[r].status = 404

\* C2: a single-item lookup (read_invoice; get_company, get_vendor, get_sow,
\* get_invoice) of an id that exists gives one record, and its id is the one asked.
C2_PresentIdIsReturned ==
    \A r \in Requests :
        /\ (Finished(r, "read_invoice") /\ req[r].id \in present) =>
               /\ resp[r].kind = "item"
               /\ resp[r].status = 200
               /\ Len(resp[r].data) = 1
               /\ resp[r].data[1].id = req[r].id
        /\ (Finished(r, "get_one") /\ req[r].id \in present) =>
               /\ Len(resp[r].data) = 1
               /\ resp[r].data[1].id = req[r].id

C2_Witness ==
    \E r1, r2 \in Requests :
        /\ Cardinality(present) = MaxId
        /\ Finished(r1, "read_invoice") /\ req[r1].id = MaxId /\ resp[r1].status = 200
        /\ Finished(r2, "get_one") /\ req[r2].id = MaxId /\ Len(resp[r2].data) = 1

\* C3: a connection belongs to one request for the time of its block: a request
\* holds one exactly while it is inside `async with`, no two requests hold the
\* same one, the pool holds the rest, and a finished request holds none,
\* whether it answered, raised the 404 or its query failed (checked over a
\* storage that may fail any query).
C3_ConnectionScoped ==
    /\ \A r \in Requests :
           /\ pc[r] \in {"idle", "enter", "done"} => conn[r] = 0
           /\ pc[r] \in {"body", "exit"} => conn[r] \in Connections
    /\ \A r1, r2 \in Requests : (r1 # r2 /\ conn[r1] # 0) => conn[r1] # conn[r2]
    /\ free = Connections \ {conn[r] : r \in Requests}

C3_Witness ==
    \E r1, r2 \in Requests :
        /\ Finished(r1, "read_invoice") /\ resp[r1].status = 404
        /\ Finished(r2, "read_invoice") /\ resp[r2].status = 500
        /\ conn[r1] = 0 /\ conn[r2] = 0
        /\ free = Connections

\* C4: two reads of GET /invoices/ that differ only in skip, the second with
\* skip + limit, give pages of at most limit records that share no record.
C4_PagesDisjoint ==
    \A r1, r2 \in Requests :
        ( /\ Finished(r1, "list_invoices") /\ resp[r1].kind = "list"
          /\ Finished(r2, "list_invoices") /\ resp[r2].kind = "list"
          /\ req[r1].skip >= 0 /\ req[r1].limit > 0
          /\ req[r2].skip = req[r1].skip + req[r1].limit
          /\ req[r2].limit = req[r1].limit
          /\ req[r2].sortby = req[r1].sortby
          /\ req[r2].search = req[r1].search ) =>
            /\ Len(resp[r1].data) <= req[r1].limit
            /\ Len(resp[r2].data) <= req[r2].limit
            /\ IdsOf(resp[r1].data) \cap IdsOf(resp[r2].data) = {}

\* C5: with a search term, a builder returns only records one of whose
\* searched fields holds the term as a literal substring, whatever the case,
\* also when the term holds % or _.
C5_SearchIsLiteral ==
    (call.fn = "get_many" /\ call.status = "ok" /\ Truthy(call.search)) =>
        \A k \in 1 .. Len(call.rows) :
            \E f \in 1 .. Len(SearchFields(call.entity)) :
                ContainsCI(call.rows[k][SearchFields(call.entity)[f]], call.search)

\* C6: with a search term, every invoice GET /invoices/ returns holds the term
\* in its invoice_number or its payment_status, whatever the case.
C6_ListInvoicesSearches ==
    \A r \in Requests :
        (Finished(r, "list_invoices") /\ resp[r].kind = "list" /\ Truthy(req[r].search)) =>
            \A k \in 1 .. Len(resp[r].data) :
                \/ ContainsCI(resp[r].data[k].invoice_number, req[r].search)
                \/ ContainsCI(resp[r].data[k].payment_status, req[r].search)

\* rows is in the order of column c: never rising when desc, never falling
\* otherwise.
InOrder(rows, c, desc) ==
    \A k \in 1 .. Len(rows) - 1 :
        IF desc THEN ~ValLess(c, rows[k][c], rows[k + 1][c])
                ELSE ~ValLess(c, rows[k + 1][c], rows[k][c])

\* The [skip, skip + limit) part of the rows of e that match search (all of
\* them without a search), ordered by column c, for the scan given.
SortedPage(e, skip, limit, c, desc, search, scan) ==
    LET matching == IF Truthy(search)
                    THEN Where(From(e, scan), SearchFields(e), <<"%">> \o search \o <<"%">>)
                    ELSE From(e, scan)
    IN  OffsetLimit(OrderBy(matching, [k \in 1 .. Len(matching) |-> matching[k][c]], c, desc),
                    skip, limit)

\* sortby names a column of e and a direction.
WellFormed(e, sortby) ==
    /\ Truthy(sortby)
    /\ Len(Split(sortby)) = 2
    /\ \E c \in Columns(e) : Split(sortby)[1] = <<c>>

\* C7: GET /invoices/ with sortby "<column>:<direction>" on a column that exists
\* returns the [skip, skip + limit) part of the invoices that match the
\* search, ordered by that column, descending for "desc" and ascending for
\* any other direction.  Stated of the requests without a search, where the
\* filter (C6) plays no part.
C7_ListInvoicesSorts ==
    \A r \in Requests :
        (Finished(r, "list_invoices") /\ resp[r].kind = "list"
            /\ ~Truthy(req[r].search)
            /\ WellFormed("invoice", req[r].sortby)) =>
            LET c    == Split(req[r].sortby)[1][1]
                desc == Split(req[r].sortby)[2] = <<"desc">>
            IN  /\ InOrder(resp[r].data, c, desc)
                /\ \E scan \in Scans(present) :
                       resp[r].data = SortedPage("invoice", req[r].skip, req[r].limit, c,
                                                 desc, req[r].search, scan)

\* The same for the builders (get_companies, get_vendors, get_sows,
\* get_invoices), which do sort.
C7_BuildersSort ==
    (call.fn = "get_many" /\ call.status = "ok" /\ WellFormed(call.entity, call.sortby)) =>
        LET c    == Split(call.sortby)[1][1]
            desc == Split(call.sortby)[2] = <<"desc">>
        IN  /\ InOrder(call.rows, c, desc)
            /\ call.rows = SortedPage(call.entity, call.skip, call.limit, c, desc,
                                      call.search, call.scan)
            /\ Len(call.rows) <= call.limit

\* C8: a sortby that does not split on ":" into two parts raises nothing of
\* its own and changes nothing: the builder ends as the same call without
\* sortby ends, with the same records in the same order.
C8_MalformedSortbyIgnored ==
    (call.fn = "get_many" /\ call.sortby # None /\ Len(Split(call.sortby)) # 2) =>
        /\ call.status # "AttributeError"
        /\ call.skip >= 0 => call.status = "ok"
        /\ [status |-> call.status, rows |-> call.rows]
               = GetMany(call.entity, call.skip, call.limit, None, call.search, call.scan)

C8_Witness ==
    /\ call.fn = "get_many"
    /\ call.sortby = <<"id", ":", "desc", ":", "x">>
    /\ call.status = "ok"
    /\ Len(call.rows) = 2
    /\ call.rows[1].id < call.rows[2].id

\* C9: a list response reports as total the number of records of its page and
\* repeats the skip and the limit of the request; a read past the last record
\* (or of an empty table) answers 200 with no record and total 0.
C9_TotalIsPageSize ==
    \A r \in Requests :
        /\ (Finished(r, "list_invoices") /\ resp[r].kind = "list") =>
               /\ resp[r].total = Len(resp[r].data)
               /\ resp[r].skip = req[r].skip
               /\ resp[r].limit = req[r].limit
        /\ (Finished(r, "list_invoices") /\ req[r].skip >= Cardinality(present)) =>
               /\ resp[r].kind = "list"
               /\ resp[r].status = 200
               /\ resp[r].data = <<>>
               /\ resp[r].total = 0

C9_Witness ==
    \E r1, r2 \in Requests :
        /\ Cardinality(present) = 2
        /\ Finished(r1, "list_invoices") /\ resp[r1].kind = "list"
        /\ req[r1].limit = 1 /\ resp[r1].total = 1
        /\ Finished(r2, "list_invoices") /\ resp[r2].kind = "list"
        /\ req[r2].skip = 2 /\ resp[r2].total = 0

\* C10: a sortby "<column>:<direction>" whose column is no attribute of the
\* entity ends the builder with the AttributeError of the lookup, and no page.
C10_UnknownColumnRaises ==
    (call.fn = "get_many" /\ Truthy(call.sortby) /\ Len(Split(call.sortby)) = 2
        /\ ~\E c \in Columns(call.entity) : Split(call.sortby)[1] = <<c>>) =>
        /\ call.status = "AttributeError"
        /\ call.rows = <<>>

C10_Witness ==
    /\ call.fn = "get_many"
    /\ call.sortby = <<"bogus", ":", "desc">>
    /\ call.status = "AttributeError"
    /\ present # {}
    /\ call.skip = 0

====
